---- MODULE Spec2Model ----
(***************************************************************************)
(* The particle scene (Particles: initShape, the useFrame loop), the shape *)
(* service (generateParticleShape) and the hand tracker (predictWebcam).   *)
(*                                                                         *)
(* Numbers.  A JavaScript number is an integer count of thousandths (1.0   *)
(* is 1000).  A Float32Array element holds fewer digits than a number: a   *)
(* store rounds to the nearest multiple of F32Quantum, ties to even        *)
(* (Fround).  NaN is a value of its own that every arithmetic step keeps.  *)
(* The hand factor is a count of hundredths (1.0 is 100); an angle fed to  *)
(* sin/cos is a count of tenths of a radian, so the frame clock counts     *)
(* twentieths of a second (time * 2.0 is then the clock itself).           *)
(***************************************************************************)
EXTENDS Integers, Sequences, FiniteSets, TLC

VARIABLES
    config,          \* Particles' props.config: [shape, count, aiPrompt]
    effectPending,   \* the useEffect of the last render has not run yet
    hasTarget,       \* targetPositions !== null
    targetPositions, \* the Float32Array held by the targetPositions state
    positions,       \* geometry.attributes.position.array
    pointsRef,       \* pointsRef.current !== null
    rotX, rotY,      \* pointsRef.current.rotation.x / .y
    handData,        \* handDataRef.current
    clock,           \* what state.clock.getElapsedTime() returns next
    frames,          \* frames run so far
    loading,         \* the last value passed to setLoading
    pending,         \* the initShape calls waiting on generateParticleShape
    frameLog,        \* what the last frame read: [ran, time, pos]
    tracker,         \* HandTracker: [landmarker, video, looping, error]
    landmarks,       \* the landmarks of the last detectForVideo result
    reported,        \* the last value passed to onHandUpdate
    detectedGesture  \* the last value passed to setDetectedGesture

particleVars == <<config, effectPending, hasTarget, targetPositions, positions,
                  pointsRef, rotX, rotY, handData, clock, frames, loading,
                  pending, frameLog>>
trackerVars == <<tracker, landmarks, reported, detectedGesture>>
vars == <<particleVars, trackerVars>>

----------------------------------------------------------------------------
(* Bounds of the model *)

MaxCount == 2
MaxFrames == 3
MaxPending == 1

----------------------------------------------------------------------------
(* Numbers *)

NaN == -1000000
F32Quantum == 10

LerpPct == 12
RotationSpeedPct == 5
IdleSpinMilli == 2
ExpansionBaseMilli == 50
ExpansionPerFactorPct == 15
NoiseBaseE4 == 200
NoisePerFactorPctE4 == 5

Abs(x) == IF x < 0 THEN -x ELSE x

Min(a, b) == IF a < b THEN a ELSE b

\* num / den rounded to the nearest integer, ties to the even one (den > 0)
RoundDiv(num, den) ==
    LET q == num \div den
        r == num % den
    IN  IF 2 * r < den THEN q
        ELSE IF 2 * r > den THEN q + 1
        ELSE IF q % 2 = 0 THEN q ELSE q + 1

\* the Float32Array element that a store of num / den thousandths leaves
Fround(num, den) == RoundDiv(num, den * F32Quantum) * F32Quantum

\* a store of a number, NaN or undefined (which is stored as NaN)
StoreF32(x) == IF x = NaN THEN NaN ELSE Fround(x, 1)

\* Math.sin and Math.cos of k tenths of a radian, in hundredths
SinTable ==
    <<0, 10, 20, 30, 39, 48, 56, 64, 72, 78, 84, 89, 93, 96, 99, 100, 100, 99,
      97, 95, 91, 86, 81, 75, 68, 60, 52, 43, 33, 24, 14, 4, -6, -16, -26, -35,
      -44, -53, -61, -69, -76, -82, -87, -92, -95, -98, -99, -100, -100, -98,
      -96, -93, -88, -83, -77, -71, -63, -55, -46, -37, -28, -18, -8>>

CosTable ==
    <<100, 100, 98, 96, 92, 88, 83, 76, 70, 62, 54, 45, 36, 27, 17, 7, -3, -13,
      -23, -32, -42, -50, -59, -67, -74, -80, -86, -90, -94, -97, -99, -100,
      -100, -99, -97, -94, -90, -85, -79, -73, -65, -57, -49, -40, -31, -21,
      -11, -1, 9, 19, 28, 38, 47, 55, 63, 71, 78, 83, 89, 93, 96, 98, 100>>

Sin(k) == SinTable[(k % Len(SinTable)) + 1]

Cos(k) == CosTable[(k % Len(CosTable)) + 1]

----------------------------------------------------------------------------
(* Shapes: getShapeCoordinates and the initial cloud.  Math.random() is a   *)
(* choice; a cloud is picked by a seed from a short list of points.         *)

ShapeTypes == {"SPHERE", "AI_GENERATED"}
Prompts == {"", "a cat"}
Seeds == {0, 1}

\* points on the sphere of radius 2.5, as Math.sin and Math.cos give them
SpherePoints == << <<2500, 0, 0>>, <<1503, 1998, 0>>, <<0, -1500, -2000>> >>

\* (Math.random() - 0.5) * 10 for every coordinate
InitialPoints == << <<3100, 4000, -20>>, <<-4996, 137, 2503>>, <<12, -2340, 4999>> >>

\* (Math.random() - 0.5) * 4 for every coordinate
FallbackPoints == << <<-2000, 1999, 3>>, <<1004, -1500, 0>>, <<-7, 640, -1999>> >>

\* count points as a flat array, point i being pts[(i + seed) mod Len(pts)]
CloudOf(pts, seed, count) ==
    [j \in 1..(3 * count) |->
        pts[(((j - 1) \div 3 + seed) % Len(pts)) + 1][((j - 1) % 3) + 1]]

\* new Float32Array(n) filled from the numbers xs
ToFloat32Array(xs) == [j \in 1..Len(xs) |-> StoreF32(xs[j])]

\* the arrays getShapeCoordinates(type, count) may return: a type matched
\* by no branch leaves every coordinate 0
getShapeCoordinates(type, count) ==
    IF type = "SPHERE"
      THEN {ToFloat32Array(CloudOf(SpherePoints, s, count)) : s \in Seeds}
    ELSE {[j \in 1..(3 * count) |-> 0]}

\* the arrays the initialPositions memo may hold
initialPositions(count) ==
    {ToFloat32Array(CloudOf(InitialPoints, s, count)) : s \in Seeds}

----------------------------------------------------------------------------
(* generateParticleShape.  A JSON value is [t, n, els]: its type, its      *)
(* number (thousandths) and its elements; an object keeps only its points  *)
(* member, as its one element, or none.                                    *)

JNull == [t |-> "null", n |-> 0, els |-> <<>>]

JNum(n) == [t |-> "number", n |-> n, els |-> <<>>]

JArr(els) == [t |-> "array", n |-> 0, els |-> els]

JObj(members) == [t |-> "object", n |-> 0, els |-> members]

\* the response texts the service is tried with
ResponseTexts ==
    {"", "oops", "null", "{}", "{\"points\":7}", "{\"points\":[]}",
     "{\"points\":[[1.234,-0.5,2]]}",
     "{\"points\":[[0.1,0.2,0.3],[-3,3,0.004],[1,1,1,9]]}",
     "{\"points\":[[1,2]]}", "{\"points\":[5]}", "{\"points\":[null]}"}

\* JSON.parse: [ok, val], ok false for a SyntaxError
JSONParse(text) ==
    CASE text = "null" -> [ok |-> TRUE, val |-> JNull]
      [] text = "{}" -> [ok |-> TRUE, val |-> JObj(<<>>)]
      [] text = "{\"points\":7}" -> [ok |-> TRUE, val |-> JObj(<<JNum(7000)>>)]
      [] text = "{\"points\":[]}" -> [ok |-> TRUE, val |-> JObj(<<JArr(<<>>)>>)]
      [] text = "{\"points\":[[1.234,-0.5,2]]}" ->
            [ok |-> TRUE, val |-> JObj(<<JArr(<<
                JArr(<<JNum(1234), JNum(-500), JNum(2000)>>) >>)>>)]
      [] text = "{\"points\":[[0.1,0.2,0.3],[-3,3,0.004],[1,1,1,9]]}" ->
            [ok |-> TRUE, val |-> JObj(<<JArr(<<
                JArr(<<JNum(100), JNum(200), JNum(300)>>),
                JArr(<<JNum(-3000), JNum(3000), JNum(4)>>),
                JArr(<<JNum(1000), JNum(1000), JNum(1000), JNum(9000)>>) >>)>>)]
      [] text = "{\"points\":[[1,2]]}" ->
            [ok |-> TRUE, val |-> JObj(<<JArr(<<
                JArr(<<JNum(1000), JNum(2000)>>) >>)>>)]
      [] text = "{\"points\":[5]}" ->
            [ok |-> TRUE, val |-> JObj(<<JArr(<<JNum(5000)>>)>>)]
      [] text = "{\"points\":[null]}" ->
            [ok |-> TRUE, val |-> JObj(<<JArr(<<JNull>>)>>)]
      [] OTHER -> [ok |-> FALSE, val |-> JNull]

\* what ai.models.generateContent may do: reject, or resolve with a text
Responses ==
    {[threw |-> TRUE, text |-> ""]}
        \cup {[threw |-> FALSE, text |-> t] : t \in ResponseTexts}

Thrown == [threw |-> TRUE, value |-> <<>>]

Returned(v) == [threw |-> FALSE, value |-> v]

\* Array.isArray(data.points)
HasArrayPoints(data) ==
    data.t = "object" /\ Len(data.els) = 1 /\ data.els[1].t = "array"

\* the try block: what it returns, or that it threw
tryBlock(resp) ==
    IF resp.threw THEN Thrown
    ELSE IF resp.text = "" THEN Thrown
    ELSE LET parsed == JSONParse(resp.text)
         IN  IF ~parsed.ok THEN Thrown
             ELSE IF parsed.val.t = "null" THEN Thrown
             ELSE IF HasArrayPoints(parsed.val)
               THEN Returned(parsed.val.els[1].els)
             ELSE Thrown

\* the catch block's random cloud
fallbackCloud(count, seed) ==
    [i \in 1..count |->
        JArr([k \in 1..3 |-> JNum(CloudOf(FallbackPoints, seed, count)[3 * (i - 1) + k])])]

\* generateParticleShape with a catch that throws again
generateParticleShapeRethrows(resp, count, seed) ==
    LET body == tryBlock(resp)
    IN  [rejected |-> body.threw, value |-> body.value]

\* how the promise settles for a response: [rejected, value]
generateParticleShape(resp, count, seed) ==
    LET body == tryBlock(resp)
    IN  IF body.threw
          THEN [rejected |-> FALSE, value |-> fallbackCloud(count, seed)]
          ELSE [rejected |-> FALSE, value |-> body.value]

----------------------------------------------------------------------------
(* initShape *)

\* pt[k] read into a Float32Array element: a missing element is undefined
ElementOf(pt, k) ==
    IF pt.t = "array" /\ k <= Len(pt.els)
      THEN (IF pt.els[k].t = "number" THEN pt.els[k].n
            ELSE IF pt.els[k].t = "null" THEN 0 ELSE NaN)
      ELSE NaN

\* aiCoords.forEach throws on pt[0] when a visited pt is null
forEachThrows(aiCoords, count) ==
    \E i \in 1..Len(aiCoords) : i <= count /\ aiCoords[i].t = "null"

\* flatArrOf with pt[0] written to all three entries
flatArrOfFirstOnly(aiCoords, count) ==
    [j \in 1..(3 * count) |->
        LET i == (j - 1) \div 3 + 1
        IN  IF i <= Len(aiCoords) THEN StoreF32(ElementOf(aiCoords[i], 1)) ELSE 0]

\* flatArr after the forEach
flatArrOf(aiCoords, count) ==
    [j \in 1..(3 * count) |->
        LET i == (j - 1) \div 3 + 1
            k == ((j - 1) % 3) + 1
        IN  IF i <= Len(aiCoords) THEN StoreF32(ElementOf(aiCoords[i], k)) ELSE 0]

NoRequest ==
    [n |-> 0, stage |-> "none", threw |-> FALSE, text |-> "",
     rejected |-> FALSE, value |-> <<>>]

\* a settled promise whose continuation has not run yet: it runs before
\* any other callback does
MicrotaskPending == \E k \in 1..Len(pending) : pending[k].stage = "settled"

RemoveAt(s, k) == [j \in 1..(Len(s) - 1) |-> IF j < k THEN s[j] ELSE s[j + 1]]

Configs == [shape : ShapeTypes, count : 1..MaxCount, aiPrompt : Prompts]

\* the component function runs with new props: the memo is recomputed when
\* count changed, and the effect is scheduled (a dependency changed)
Rerender(newConfig) ==
    /\ ~MicrotaskPending
    /\ pointsRef
    /\ ~effectPending
    /\ newConfig # config
    /\ config' = newConfig
    /\ effectPending' = TRUE
    /\ IF newConfig.count # config.count
         THEN /\ positions' \in initialPositions(newConfig.count)
              /\ frameLog' = [ran |-> FALSE, time |-> 0, pos |-> <<>>]
         ELSE UNCHANGED <<positions, frameLog>>
    /\ UNCHANGED <<hasTarget, targetPositions, pointsRef, rotX, rotY, handData,
                   clock, frames, loading, pending>>
    /\ UNCHANGED trackerVars

\* the commit attaches the ref
Commit ==
    /\ ~MicrotaskPending
    /\ ~pointsRef
    /\ pointsRef' = TRUE
    /\ UNCHANGED <<config, effectPending, hasTarget, targetPositions, positions,
                   rotX, rotY, handData, clock, frames, loading, pending, frameLog>>
    /\ UNCHANGED trackerVars

\* the effect runs initShape up to its await, or to its end
InitShape ==
    /\ ~MicrotaskPending
    /\ pointsRef
    /\ effectPending
    /\ effectPending' = FALSE
    /\ IF config.shape = "AI_GENERATED" /\ config.aiPrompt # ""
         THEN /\ Len(pending) < MaxPending
              /\ loading' = TRUE
              /\ pending' = Append(pending,
                     [NoRequest EXCEPT !.n = config.count, !.stage = "inflight"])
              /\ UNCHANGED <<hasTarget, targetPositions>>
         ELSE /\ hasTarget' = TRUE
              /\ targetPositions' \in getShapeCoordinates(config.shape, config.count)
              /\ UNCHANGED <<loading, pending>>
    /\ UNCHANGED <<config, positions, pointsRef, rotX, rotY, handData, clock,
                   frames, frameLog>>
    /\ UNCHANGED trackerVars

\* generateParticleShape settles for the k-th waiting call
ServiceSettles(k, resp, seed) ==
    /\ ~MicrotaskPending
    /\ k \in 1..Len(pending)
    /\ pending[k].stage = "inflight"
    /\ LET r == generateParticleShape(resp, pending[k].n, seed)
       IN  pending' = [pending EXCEPT ![k] =
               [n |-> pending[k].n, stage |-> "settled", threw |-> resp.threw,
                text |-> resp.text, rejected |-> r.rejected, value |-> r.value]]
    /\ UNCHANGED <<config, effectPending, hasTarget, targetPositions, positions,
                   pointsRef, rotX, rotY, handData, clock, frames, loading, frameLog>>
    /\ UNCHANGED trackerVars

\* the target initShape stores once its await is over
targetAfterAwait(req) ==
    IF req.rejected \/ forEachThrows(req.value, req.n)
      THEN getShapeCoordinates("SPHERE", req.n)
      ELSE {flatArrOf(req.value, req.n)}

\* initShape goes on after its await: try, catch, finally
InitShapeResumes(k) ==
    /\ k \in 1..Len(pending)
    /\ pending[k].stage = "settled"
    /\ hasTarget' = TRUE
    /\ targetPositions' \in targetAfterAwait(pending[k])
    /\ loading' = FALSE
    /\ pending' = RemoveAt(pending, k)
    /\ UNCHANGED <<config, effectPending, positions, pointsRef, rotX, rotY,
                   handData, clock, frames, frameLog>>
    /\ UNCHANGED trackerVars

----------------------------------------------------------------------------
(* The frame loop *)

\* the values handDataRef.current is tried with: [factor, x, y, isTracking]
HandValues ==
    {[factor |-> 80, x |-> 0, y |-> 0, isTracking |-> FALSE],
     [factor |-> 100, x |-> 1500, y |-> -1500, isTracking |-> TRUE],
     [factor |-> 0, x |-> -630, y |-> 297, isTracking |-> TRUE],
     [factor |-> 37, x |-> 900, y |-> -450, isTracking |-> FALSE]}

\* the clock ticks that may pass between two frames
FrameTicks == {1, 2}

\* expansion, in thousandths
Expansion(factor) == ExpansionBaseMilli + factor * ExpansionPerFactorPct

\* noiseAmp, in ten-thousandths
NoiseAmp(factor) == NoiseBaseE4 + factor * NoisePerFactorPctE4

\* noiseX, noiseY, noiseZ of particle i (axis 1, 2, 3), in millionths
Noise(axis, factor, time, i) ==
    (IF axis = 2 THEN Cos(time + i) ELSE Sin(time + i)) * NoiseAmp(factor)

\* targetX + noiseX (and Y, Z), in millionths
Goal(t, axis, factor, time, i) == t * Expansion(factor) + Noise(axis, factor, time, i)

\* LerpStore with the old value not subtracted: positions[j] += goal * 0.12
LerpStoreNoSubtract(c, t, axis, factor, time, i) ==
    IF c = NaN \/ t = NaN THEN NaN
    ELSE Fround(c * 100000 + Goal(t, axis, factor, time, i) * LerpPct, 100000)

\* positions[j] += (goal - c) * 0.12, as the Float32Array keeps it
LerpStore(c, t, axis, factor, time, i) ==
    IF c = NaN \/ t = NaN THEN NaN
    ELSE Fround(c * 100000 + (Goal(t, axis, factor, time, i) - c * 1000) * LerpPct,
                100000)

\* targetPositions[j]: undefined past the end, NaN once multiplied
TargetAt(target, j) == IF j <= Len(target) THEN target[j] ELSE NaN

\* UpdateParticle with cx, cy, cz read at index 0, 1, 2 for every particle
UpdateParticleReadsFirst(pos, target, factor, time, i) ==
    [pos EXCEPT
        ![3 * i + 1] = LerpStore(pos[1], TargetAt(target, 3 * i + 1), 1, factor, time, i),
        ![3 * i + 2] = LerpStore(pos[2], TargetAt(target, 3 * i + 2), 2, factor, time, i),
        ![3 * i + 3] = LerpStore(pos[3], TargetAt(target, 3 * i + 3), 3, factor, time, i)]

\* one pass of the loop body, for particle i (0-based)
UpdateParticle(pos, target, factor, time, i) ==
    [pos EXCEPT
        ![3 * i + 1] = LerpStore(pos[3 * i + 1], TargetAt(target, 3 * i + 1), 1, factor, time, i),
        ![3 * i + 2] = LerpStore(pos[3 * i + 2], TargetAt(target, 3 * i + 2), 2, factor, time, i),
        ![3 * i + 3] = LerpStore(pos[3 * i + 3], TargetAt(target, 3 * i + 3), 3, factor, time, i)]

RECURSIVE FrameLoop(_, _, _, _, _, _)
\* for (let i = ...; i < count; i++)
FrameLoop(pos, target, count, factor, time, i) ==
    IF i >= count THEN pos
    ELSE FrameLoop(UpdateParticle(pos, target, factor, time, i),
                   target, count, factor, time, i + 1)

\* THREE.MathUtils.lerp(x, yNum / yDen, tPct / 100), to the thousandth
Lerp(x, yNum, yDen, tPct) ==
    RoundDiv(x * (100 - tPct) * yDen + yNum * tPct, 100 * yDen)

\* rotation.y after the frame
NextRotY(ry, hand) ==
    IF hand.isTracking THEN Lerp(ry, hand.x * 3, 2, RotationSpeedPct)
    ELSE ry + IdleSpinMilli

\* NextRotX with the idle branch taking the hand's y as well
NextRotXAlwaysHand(rx, hand) == Lerp(rx, hand.y * 3, 2, RotationSpeedPct)

\* rotation.x after the frame
NextRotX(rx, hand) ==
    IF hand.isTracking THEN Lerp(rx, hand.y * 3, 2, RotationSpeedPct)
    ELSE Lerp(rx, 0, 1, RotationSpeedPct)

\* App stores a new value in handDataRef.current
SetHand(data) ==
    /\ ~MicrotaskPending
    /\ data # handData
    /\ handData' = data
    /\ UNCHANGED <<config, effectPending, hasTarget, targetPositions, positions,
                   pointsRef, rotX, rotY, clock, frames, loading, pending, frameLog>>
    /\ UNCHANGED trackerVars

\* one frame: the useFrame callback, then the clock moves on by dt
Frame(dt) ==
    /\ ~MicrotaskPending
    /\ frames < MaxFrames
    /\ frames' = frames + 1
    /\ clock' = clock + dt
    /\ IF ~pointsRef \/ ~hasTarget
         THEN UNCHANGED <<positions, rotX, rotY, frameLog>>
         ELSE /\ rotY' = NextRotY(rotY, handData)
              /\ rotX' = NextRotX(rotX, handData)
              /\ positions' = FrameLoop(positions, targetPositions, config.count,
                                        handData.factor, clock, 0)
              /\ frameLog' = [ran |-> TRUE, time |-> clock, pos |-> positions]
    /\ UNCHANGED <<config, effectPending, hasTarget, targetPositions, pointsRef,
                   handData, loading, pending>>
    /\ UNCHANGED trackerVars

----------------------------------------------------------------------------
(* HandTracker.  A landmark is [x, y, z] in thousandths of the image size. *)

MinOpenE4 == 1500
MaxOpenE4 == 4500
Wrist == 0
MiddleMcp == 9
Tips == <<4, 8, 12, 16, 20>>

RECURSIVE SqrtSearch(_, _, _)
\* the largest r in lo..hi with r * r <= n
SqrtSearch(n, lo, hi) ==
    IF lo >= hi THEN lo
    ELSE LET mid == (lo + hi + 1) \div 2
         IN  IF mid * mid <= n THEN SqrtSearch(n, mid, hi)
             ELSE SqrtSearch(n, lo, mid - 1)

\* Math.sqrt(n), to the nearest integer (n < 2^30)
Sqrt(n) ==
    LET r == SqrtSearch(n, 0, 32767)
    IN  IF n - r * r > r THEN r + 1 ELSE r

\* the distance of p from q, in ten-thousandths
Dist3(p, q) ==
    Sqrt(((p.x - q.x) * (p.x - q.x) + (p.y - q.y) * (p.y - q.y)
            + (p.z - q.z) * (p.z - q.z)) * 100)

\* Math.hypot(p.x - q.x, p.y - q.y), squared: hypot is compared only
Hypot2(p, q) == (p.x - q.x) * (p.x - q.x) + (p.y - q.y) * (p.y - q.y)

\* totalDist after the forEach over the tips, in ten-thousandths
totalDist(lm) ==
    Dist3(lm[Tips[1]], lm[Wrist]) + Dist3(lm[Tips[2]], lm[Wrist])
        + Dist3(lm[Tips[3]], lm[Wrist]) + Dist3(lm[Tips[4]], lm[Wrist])
        + Dist3(lm[Tips[5]], lm[Wrist])

\* factorOf without the clamp
factorOfUnclamped(lm) ==
    RoundDiv((totalDist(lm) - 5 * MinOpenE4) * 100, 5 * (MaxOpenE4 - MinOpenE4))

\* factor: (avgDist - minOpen) / (maxOpen - minOpen) clamped to [0, 1],
\* in hundredths
factorOf(lm) ==
    LET num == totalDist(lm) - 5 * MinOpenE4
        den == 5 * (MaxOpenE4 - MinOpenE4)
    IN  IF num <= 0 THEN 0
        ELSE IF num >= den THEN 100
        ELSE RoundDiv(num * 100, den)

\* handX and handY
handXOf(lm) == (500 - lm[MiddleMcp].x) * 3

handYOf(lm) == (500 - lm[MiddleMcp].y) * 3

isFingerOpen(lm, tipIdx, pipIdx) ==
    Hypot2(lm[tipIdx], lm[Wrist]) > Hypot2(lm[pipIdx], lm[Wrist])

\* gestureOf with Victory not asking for ring and pinky closed
gestureOfLooseVictory(indexOpen, middleOpen, ringOpen, pinkyOpen) ==
    IF indexOpen /\ middleOpen THEN "Victory"
    ELSE IF ~indexOpen /\ ~middleOpen /\ ~ringOpen /\ ~pinkyOpen THEN "Closed_Fist"
    ELSE IF indexOpen /\ middleOpen /\ ringOpen /\ pinkyOpen THEN "Open_Palm"
    ELSE "None"

\* the if / else-if chain over the four fingers
gestureOf(indexOpen, middleOpen, ringOpen, pinkyOpen) ==
    IF indexOpen /\ middleOpen /\ ~ringOpen /\ ~pinkyOpen THEN "Victory"
    ELSE IF ~indexOpen /\ ~middleOpen /\ ~ringOpen /\ ~pinkyOpen THEN "Closed_Fist"
    ELSE IF indexOpen /\ middleOpen /\ ringOpen /\ pinkyOpen THEN "Open_Palm"
    ELSE "None"

gestureOfHand(lm) ==
    gestureOf(isFingerOpen(lm, 8, 6), isFingerOpen(lm, 12, 10),
              isFingerOpen(lm, 16, 14), isFingerOpen(lm, 20, 18))

\* the HandData passed to onHandUpdate when a hand is found
trackedHandData(lm) ==
    [called |-> TRUE, factor |-> factorOf(lm), x |-> handXOf(lm), y |-> handYOf(lm),
     isTracking |-> TRUE, gesture |-> gestureOfHand(lm)]

\* the HandData passed to onHandUpdate when no hand is found
lostHandData ==
    [called |-> TRUE, factor |-> 80, x |-> 0, y |-> 0, isTracking |-> FALSE,
     gesture |-> "None"]

P3(x, y, z) == [x |-> x, y |-> y, z |-> z]

LandmarkIds == {0, 4, 6, 8, 9, 10, 12, 14, 16, 18, 20}

\* the poses a finger is tried in: <<PIP offset, tip offset>> from the wrist
FingerPoses ==
    {<<P3(0, -250, 0), P3(0, -500, -40)>>,    \* stretched
     <<P3(0, -250, 0), P3(60, -100, -20)>>,   \* curled
     <<P3(150, -200, 0), P3(-150, -200, 0)>>} \* tip as far as the PIP joint

\* stretched and curled
TwoPoses == {p \in FingerPoses : p[1].x = 0}

ThumbTips == {P3(-100, -50, 0), P3(-300, -400, -50)}

MiddleMcps == {P3(500, 600, 0), P3(0, 0, 10), P3(1000, 1000, 0), P3(1200, -100, 0)}

Plus(p, d) == P3(p.x + d.x, p.y + d.y, p.z + d.z)

\* the hands detectForVideo is tried with
Hands ==
    {[id \in LandmarkIds |->
        LET w == P3(500, 800, 0)
        IN  CASE id = 0 -> w
              [] id = 4 -> Plus(w, th)
              [] id = 6 -> Plus(w, ix[1])
              [] id = 8 -> Plus(w, ix[2])
              [] id = 9 -> mc
              [] id = 10 -> Plus(w, md[1])
              [] id = 12 -> Plus(w, md[2])
              [] id = 14 -> Plus(w, rg[1])
              [] id = 16 -> Plus(w, rg[2])
              [] id = 18 -> Plus(w, pk[1])
              [] OTHER -> Plus(w, pk[2])] :
        th \in ThumbTips, ix \in FingerPoses, md \in TwoPoses,
        rg \in TwoPoses, pk \in TwoPoses, mc \in MiddleMcps}

NoHand == [id \in LandmarkIds |-> P3(0, 0, 0)]

\* results.landmarks: empty, or one hand
Detections ==
    {[found |-> FALSE, lm |-> NoHand]} \cup {[found |-> TRUE, lm |-> h] : h \in Hands}

\* the await chain of setupMediaPipe settles: the landmarker is created and
\* startWebcam is called, or the catch sets the error
SetupSettles(ok, hasMediaDevices) ==
    /\ tracker.stage = "loading"
    /\ tracker' =
         IF ~ok THEN [tracker EXCEPT !.stage = "failed",
                                    !.error = "Failed to load hand tracking."]
         ELSE IF hasMediaDevices
           THEN [tracker EXCEPT !.stage = "camera", !.landmarker = TRUE]
         ELSE [tracker EXCEPT !.stage = "idle", !.landmarker = TRUE]
    /\ UNCHANGED <<landmarks, reported, detectedGesture>>
    /\ UNCHANGED particleVars

\* getUserMedia settles
CameraSettles(ok) ==
    /\ tracker.stage = "camera"
    /\ tracker' =
         IF ~ok THEN [tracker EXCEPT !.stage = "failed",
                                    !.error = "Camera permission denied."]
         ELSE IF tracker.videoRef
           THEN [tracker EXCEPT !.stage = "idle", !.listening = TRUE, !.isReady = TRUE]
         ELSE [tracker EXCEPT !.stage = "idle"]
    /\ UNCHANGED <<landmarks, reported, detectedGesture>>
    /\ UNCHANGED particleVars

\* the body of predictWebcam, called with the tracker as its caller left
\* it; raf is whether a requestAnimationFrame is outstanding
predictWebcam(called, hasSize, det) ==
    IF ~called.videoRef \/ ~called.landmarker
      THEN /\ tracker' = called
           /\ UNCHANGED <<landmarks, reported, detectedGesture>>
    ELSE IF ~hasSize
      THEN /\ tracker' = [called EXCEPT !.raf = TRUE]
           /\ UNCHANGED <<landmarks, reported, detectedGesture>>
    ELSE /\ tracker' = [called EXCEPT !.raf = TRUE]
         /\ landmarks' = det
         /\ IF det.found
              THEN /\ detectedGesture' = gestureOfHand(det.lm)
                   /\ reported' = trackedHandData(det.lm)
              ELSE /\ reported' = lostHandData
                   /\ detectedGesture' = "None"

\* the video fires loadeddata
LoadedData(hasSize, det) ==
    /\ tracker.listening
    /\ predictWebcam([tracker EXCEPT !.listening = FALSE], hasSize, det)
    /\ UNCHANGED particleVars

\* the animation frame asked for by the last predictWebcam comes
AnimationFrame(hasSize, det) ==
    /\ tracker.raf
    /\ predictWebcam([tracker EXCEPT !.raf = FALSE], hasSize, det)
    /\ UNCHANGED particleVars

\* the effect's cleanup: the frame is cancelled, the video is gone
Cleanup ==
    /\ tracker.videoRef
    /\ tracker' = [tracker EXCEPT !.raf = FALSE, !.videoRef = FALSE]
    /\ UNCHANGED <<landmarks, reported, detectedGesture>>
    /\ UNCHANGED particleVars

----------------------------------------------------------------------------
(* Initial states *)

InitParticles ==
    /\ config \in {c \in Configs : c.count = 1}
    /\ effectPending = TRUE
    /\ hasTarget = FALSE
    /\ targetPositions = <<>>
    /\ positions \in initialPositions(config.count)
    /\ pointsRef = FALSE
    /\ rotX = 0
    /\ rotY = 0
    /\ handData = [factor |-> 80, x |-> 0, y |-> 0, isTracking |-> FALSE]
    /\ clock = 0
    /\ frames = 0
    /\ loading = FALSE
    /\ pending = <<>>
    /\ frameLog = [ran |-> FALSE, time |-> 0, pos |-> <<>>]

InitTracker ==
    /\ tracker = [stage |-> "loading", landmarker |-> FALSE, videoRef |-> TRUE,
                  listening |-> FALSE, raf |-> FALSE, isReady |-> FALSE,
                  error |-> ""]
    /\ landmarks = [found |-> FALSE, lm |-> NoHand]
    /\ reported = [called |-> FALSE, factor |-> 0, x |-> 0, y |-> 0,
                   isTracking |-> FALSE, gesture |-> "None"]
    /\ detectedGesture = "None"

----------------------------------------------------------------------------
(* Spec: the scene's life cycle, from the first render on.  Frames do not  *)
(* write what these actions read, and are left to SpecFrame.               *)

Init == InitParticles /\ InitTracker

Next ==
    \/ Commit
    \/ \E c \in Configs : Rerender(c)
    \/ InitShape
    \/ \E k \in 1..MaxPending, resp \in Responses, seed \in Seeds :
          ServiceSettles(k, resp, seed)
    \/ \E k \in 1..MaxPending : InitShapeResumes(k)

Spec == Init /\ [][Next]_vars

----------------------------------------------------------------------------
(* SpecFrame: the frame loop, started from the scenes Spec reaches: no     *)
(* target yet, a preset cloud, a cloud built for another count (the effect *)
(* of the last render has not stored its own yet), a cloud built from an   *)
(* AI answer.                                                              *)

\* a response as ServiceSettles and InitShapeResumes turn it into a target
aiTarget(text, count) ==
    flatArrOf(generateParticleShape([threw |-> FALSE, text |-> text], count, 0).value,
              count)

FrameScenes(count) ==
    {[shape |-> "SPHERE", hasTarget |-> FALSE, target |-> <<>>, effect |-> TRUE]}
        \cup {[shape |-> "SPHERE", hasTarget |-> TRUE, target |-> t, effect |-> FALSE] :
                t \in getShapeCoordinates("SPHERE", count)}
        \cup {[shape |-> "SPHERE", hasTarget |-> TRUE, target |-> t, effect |-> TRUE] :
                t \in UNION {getShapeCoordinates("SPHERE", c) :
                                c \in (1..MaxCount) \ {count}}}
        \cup {[shape |-> "AI_GENERATED", hasTarget |-> TRUE,
               target |-> aiTarget(text, count), effect |-> FALSE] :
                text \in {"{\"points\":[[1,2]]}", "{\"points\":[[1.234,-0.5,2]]}"}}

InitFrame ==
    /\ \E count \in 1..MaxCount : \E scene \in FrameScenes(count) :
          /\ config = [shape |-> scene.shape, count |-> count,
                       aiPrompt |-> IF scene.shape = "SPHERE" THEN "" ELSE "a cat"]
          /\ hasTarget = scene.hasTarget
          /\ targetPositions = scene.target
          /\ pointsRef = scene.hasTarget
          /\ effectPending = scene.effect
          /\ positions \in initialPositions(count)
    /\ rotX = 0
    /\ rotY = 0
    /\ handData = [factor |-> 80, x |-> 0, y |-> 0, isTracking |-> FALSE]
    /\ clock = 0
    /\ frames = 0
    /\ loading = FALSE
    /\ pending = <<>>
    /\ frameLog = [ran |-> FALSE, time |-> 0, pos |-> <<>>]
    /\ InitTracker

NextFrame ==
    \/ Commit
    \/ InitShape
    \/ \E data \in HandValues : SetHand(data)
    \/ \E dt \in FrameTicks : Frame(dt)

SpecFrame == InitFrame /\ [][NextFrame]_vars

----------------------------------------------------------------------------
(* SpecTracker: the hand tracker, from its mount on *)

NextTracker ==
    \/ \E ok \in BOOLEAN, hasMediaDevices \in BOOLEAN : SetupSettles(ok, hasMediaDevices)
    \/ \E ok \in BOOLEAN : CameraSettles(ok)
    \/ \E hasSize \in BOOLEAN :
          \E det \in (IF hasSize THEN Detections ELSE {landmarks}) :
              LoadedData(hasSize, det)
    \/ \E hasSize \in BOOLEAN :
          \E det \in (IF hasSize THEN Detections ELSE {landmarks}) :
              AnimationFrame(hasSize, det)
    \/ Cleanup

InitTrackerOnly ==
    /\ Init
    /\ config = [shape |-> "SPHERE", count |-> 1, aiPrompt |-> ""]
    /\ positions = ToFloat32Array(CloudOf(InitialPoints, 0, 1))

SpecTracker == InitTrackerOnly /\ [][NextTracker]_vars

----------------------------------------------------------------------------
(* Properties of the frame loop, checked under SpecFrame *)

\* this step is a frame whose callback got past its first line
FrameRan == frames' # frames /\ pointsRef /\ hasTarget

\* the indices of the buffer that the loop visits: particle i, axis 1..3
Visited == {<<i, axis>> : i \in 0..(config.count - 1), axis \in 1..3}

\* target coordinate * expansion, in millionths
ScaledTarget(t, factor) == t * (50 + 15 * factor)

\* c + (goal - c) * 0.12 for goal in millionths, in hundred-millionths
ExactLerp(c, goal) == c * 100000 + (goal - c * 1000) * 12

\* The rule C1 is amended to, for one coordinate: old value c, new value
\* cNew, target coordinate t
LerpRule(c, cNew, t, axis, factor, time, i) ==
    LET noise == Noise(axis, factor, time, i)
        goal == ScaledTarget(t, factor) + noise
        exact == ExactLerp(c, goal)
    IN  IF c = NaN \/ t = NaN THEN cNew = NaN
        ELSE /\ Abs(noise) <= (200 + 5 * factor) * 100
             /\ cNew # NaN
             /\ cNew % F32Quantum = 0
             /\ 2 * Abs(cNew * 100000 - exact) <= F32Quantum * 100000
             /\ \/ c * 1000 <= cNew * 1000 /\ cNew * 1000 <= goal
                \/ goal <= cNew * 1000 /\ cNew * 1000 <= c * 1000
             /\ noise = 0 =>
                  /\ Abs(cNew * 1000 - goal) <= Abs(c * 1000 - goal)
                  /\ 2 * Abs(exact - c * 100000) > F32Quantum * 100000 =>
                        Abs(cNew * 1000 - goal) < Abs(c * 1000 - goal)

C2_OwnStateOnly ==
    [][frames' # frames =>
        /\ targetPositions' = targetPositions
        /\ hasTarget' = hasTarget
        /\ handData' = handData
        /\ config' = config
        /\ DOMAIN positions' = DOMAIN positions
        /\ \A j \in DOMAIN positions : j > 3 * config.count => positions'[j] = positions[j]
        /\ (pointsRef /\ hasTarget) =>
              \A v \in Visited :
                  LET j == 3 * v[1] + v[2]
                  IN  positions'[j] =
                        LerpStore(positions[j], TargetAt(targetPositions, j),
                                  v[2], handData.factor, clock, v[1])]_vars

\* C2 witness: a frame has moved two particles that started apart
C2_Witness ==
    /\ frameLog.ran
    /\ config.count >= 2
    /\ frameLog.pos[1] # frameLog.pos[4]
    /\ positions[1] # frameLog.pos[1]
    /\ positions[4] # frameLog.pos[4]

\* old + (goal - old) * 0.05 to the nearest thousandth, goal = goalNum / goalDen
IsLerp5(old, new, goalNum, goalDen) ==
    /\ 2 * Abs(new * 100 * goalDen - (old * 95 * goalDen + goalNum * 5)) <= 100 * goalDen
    /\ Abs(new * goalDen - goalNum) <= Abs(old * goalDen - goalNum)

\* what C3 says of one frame
RotationRule ==
    IF handData.isTracking
      THEN /\ IsLerp5(rotY, rotY', handData.x * 3, 2)
           /\ IsLerp5(rotX, rotX', handData.y * 3, 2)
      ELSE /\ rotY' = rotY + 2
           /\ IsLerp5(rotX, rotX', 0, 1)

\* C3, as amended.  In every frame in which the points object and a target
\* buffer exist: with isTracking true, rotation.y moves toward handX * 1.5
\* and rotation.x toward handY * 1.5, each by 0.05 of the remaining gap;
\* with isTracking false, rotation.y increases by exactly 0.002 and
\* rotation.x moves toward 0 by 0.05 of the gap, whatever hand x and y are.
\* In a frame without the points object or a target the rotation stays.
C3_Rotation ==
    [][frames' # frames =>
        IF pointsRef /\ hasTarget THEN RotationRule
        ELSE rotX' = rotX /\ rotY' = rotY]_vars

\* C3 witness: frames have turned both angles, the last with a tracked hand
C3_Witness ==
    /\ frameLog.ran
    /\ handData.isTracking
    /\ rotX # 0
    /\ rotY # 0
    /\ rotY % 2 # 0

\* C3 as first stated: the rotation rule holds in every frame
C3_EveryFrame == [][frames' # frames => RotationRule]_vars

----------------------------------------------------------------------------
(* Properties of the hand tracker, checked under SpecTracker *)

\* the sum of the distances of the five fingertips from the wrist
TipDistances(lm) ==
    Dist3(lm[4], lm[0]) + Dist3(lm[8], lm[0]) + Dist3(lm[12], lm[0])
        + Dist3(lm[16], lm[0]) + Dist3(lm[20], lm[0])

\* C4.  Every HandData reported with isTracking true has factor in [0, 1],
\* factor = (average distance of the fingertips 4, 8, 12, 16, 20 from the
\* wrist 0 - 0.15) / 0.30 clamped, 0 for an average <= 0.15 and 1 for an
\* average >= 0.45; x = (0.5 - landmark9.x) * 3 and y = (0.5 - landmark9.y)
\* * 3, within [-1.5, 1.5] when landmark 9 lies in [0, 1].
C4_HandMapping ==
    (reported.called /\ reported.isTracking) =>
        LET lm == landmarks.lm
            sum == TipDistances(lm)
        IN  /\ landmarks.found
            /\ reported.factor >= 0
            /\ reported.factor <= 100
            /\ sum <= 5 * 1500 => reported.factor = 0
            /\ sum >= 5 * 4500 => reported.factor = 100
            /\ (sum > 5 * 1500 /\ sum < 5 * 4500) =>
                  2 * Abs(reported.factor * 15000 - (sum - 7500) * 100) <= 15000
            /\ reported.x = (500 - lm[9].x) * 3
            /\ reported.y = (500 - lm[9].y) * 3
            /\ (lm[9].x >= 0 /\ lm[9].x <= 1000) =>
                  (reported.x >= -1500 /\ reported.x <= 1500)
            /\ (lm[9].y >= 0 /\ lm[9].y <= 1000) =>
                  (reported.y >= -1500 /\ reported.y <= 1500)

\* C4 witness: a hand half open, off the centre of the image
C4_Witness ==
    /\ reported.called
    /\ reported.isTracking
    /\ reported.factor > 0
    /\ reported.factor < 100
    /\ reported.x = 1500
    /\ reported.y # 0

\* a finger is open: its tip is farther from the wrist than its PIP joint,
\* in the x-y plane
TipFarther(lm, tip, pip) ==
    (lm[tip].x - lm[0].x) * (lm[tip].x - lm[0].x)
        + (lm[tip].y - lm[0].y) * (lm[tip].y - lm[0].y)
      > (lm[pip].x - lm[0].x) * (lm[pip].x - lm[0].x)
        + (lm[pip].y - lm[0].y) * (lm[pip].y - lm[0].y)

\* C8.  The gesture is a total function of indexOpen, middleOpen, ringOpen,
\* pinkyOpen: Victory iff index and middle are open and ring and pinky
\* closed, Closed_Fist iff all four are closed, Open_Palm iff all four are
\* open, None otherwise; one gesture is reported per frame, the same to
\* onHandUpdate and to setDetectedGesture.
C8_Gesture ==
    reported.called =>
        /\ reported.gesture = detectedGesture
        /\ reported.gesture \in {"Victory", "Closed_Fist", "Open_Palm", "None"}
        /\ ~reported.isTracking => reported.gesture = "None"
        /\ reported.isTracking =>
              LET lm == landmarks.lm
                  open == <<TipFarther(lm, 8, 6), TipFarther(lm, 12, 10),
                            TipFarther(lm, 16, 14), TipFarther(lm, 20, 18)>>
              IN  /\ reported.gesture = "Victory" <=> open = <<TRUE, TRUE, FALSE, FALSE>>
                  /\ reported.gesture = "Closed_Fist" <=> open = <<FALSE, FALSE, FALSE, FALSE>>
                  /\ reported.gesture = "Open_Palm" <=> open = <<TRUE, TRUE, TRUE, TRUE>>
                  /\ reported.gesture = "None" <=>
                        open \notin {<<TRUE, TRUE, FALSE, FALSE>>,
                                     <<FALSE, FALSE, FALSE, FALSE>>,
                                     <<TRUE, TRUE, TRUE, TRUE>>}

\* C8 witness: a hand with index, middle and ring open and the pinky
\* closed is reported as None
C8_Witness ==
    /\ reported.called
    /\ reported.isTracking
    /\ TipFarther(landmarks.lm, 8, 6)
    /\ TipFarther(landmarks.lm, 12, 10)
    /\ TipFarther(landmarks.lm, 16, 14)
    /\ ~TipFarther(landmarks.lm, 20, 18)
    /\ detectedGesture = "None"

----------------------------------------------------------------------------
(* Properties of the shape service and of initShape, checked under Spec *)

\* the calls whose promise has settled and whose initShape has not resumed
Settled == {k \in 1..Len(pending) : pending[k].stage = "settled"}

\* the responses C5 names: the call throws, the text is empty, the text is
\* not JSON, the JSON has no array as its points
FailedResponse(req) ==
    \/ req.threw
    \/ req.text \in {"", "oops", "null", "{}", "{\"points\":7}"}

\* a triple of numbers in [-2, 2]
IsFallbackPoint(pt) ==
    /\ pt.t = "array"
    /\ Len(pt.els) = 3
    /\ \A k \in 1..3 : pt.els[k].t = "number" /\ pt.els[k].n >= -2000 /\ pt.els[k].n <= 2000

\* C5.  generateParticleShape never rejects: if the AI call throws, returns
\* empty text, text that is not JSON, or JSON whose points is not an array,
\* the promise resolves with exactly count points, each a triple of numbers
\* in [-2, 2].
C5_NeverRejects ==
    \A k \in Settled :
        /\ ~pending[k].rejected
        /\ FailedResponse(pending[k]) =>
              /\ Len(pending[k].value) = pending[k].n
              /\ \A i \in 1..Len(pending[k].value) : IsFallbackPoint(pending[k].value[i])

\* C5 witness: a call for two points settled after a text that is not JSON
C5_Witness ==
    \E k \in Settled :
        /\ pending[k].text = "oops"
        /\ pending[k].n = 2
        /\ Len(pending[k].value) = 2

\* C6.  Every value generateParticleShape resolves with from an AI response
\* is an array of arrays: each element of it is itself an array.
C6_ArrayOfArrays ==
    \A k \in Settled :
        (~pending[k].rejected /\ ~FailedResponse(pending[k])) =>
            \A i \in 1..Len(pending[k].value) : pending[k].value[i].t = "array"

\* the first three elements of pt are numbers
IsPoint(pt) ==
    pt.t = "array" /\ Len(pt.els) >= 3 /\ \A k \in 1..3 : pt.els[k].t = "number"

\* this step resumes initShape for a call that resolved with a list of points
ResumesWithPoints(k) ==
    /\ k \in Settled
    /\ Len(pending') < Len(pending)
    /\ ~pending[k].rejected
    /\ \A i \in 1..Len(pending[k].value) : IsPoint(pending[k].value[i])

\* the layout C7 states: n * 3 entries, points past n ignored, particles
\* past m at the origin
TargetLayout(k) ==
    LET n == pending[k].n
        m == Len(pending[k].value)
    IN  /\ hasTarget'
        /\ Len(targetPositions') = 3 * n
        /\ \A i \in 1..n : i > m =>
              \A a \in 1..3 : targetPositions'[3 * (i - 1) + a] = 0

\* C7, as amended.  When an AI generation started with count n resolves
\* with a list of m points, the stored target has exactly n * 3 entries;
\* for every i < min(m, n) entries 3i, 3i+1, 3i+2 are the three coordinates
\* of point i rounded to the nearest Float32Array element; points of index
\* >= n are ignored; when m < n every entry of particles m..n-1 is 0.
C7_TargetFromPoints ==
    [][\A k \in 1..Len(pending) : ResumesWithPoints(k) =>
        /\ TargetLayout(k)
        /\ \A i \in 1..Min(Len(pending[k].value), pending[k].n) : \A a \in 1..3 :
              LET stored == targetPositions'[3 * (i - 1) + a]
              IN  /\ stored % F32Quantum = 0
                  /\ 2 * Abs(stored - pending[k].value[i].els[a].n) <= F32Quantum]_vars

\* C7 witness: a generation started with count 1 has stored its one point
\* after the count went to 2
C7_Witness ==
    /\ hasTarget
    /\ pending = <<>>
    /\ ~loading
    /\ config.count = 2
    /\ targetPositions = <<1230, -500, 2000>>

\* C7 as first stated: the entries equal the coordinates of the points
C7_EntriesEqualPoints ==
    [][\A k \in 1..Len(pending) : ResumesWithPoints(k) =>
        /\ TargetLayout(k)
        /\ \A i \in 1..Min(Len(pending[k].value), pending[k].n) : \A a \in 1..3 :
              targetPositions'[3 * (i - 1) + a] = pending[k].value[i].els[a].n]_vars

====
